---- MODULE Spec2Model ----
(***************************************************************************)
(* Tenant resolution and request-scoped tenant context of the landscaping  *)
(* backend: src/src/middlewares/tenantResolver.js mounted by src/server.js *)
(* and, a second time, by the portfolio and gallery routers.               *)
(*                                                                         *)
(* Strings are sequences of tokens: a token is one of the separators       *)
(* ":", ".", "-", "/" or a block of characters that holds none of them.    *)
(* An optional value (a header that may be absent, a function that may     *)
(* return null) is a record [some, v].                                     *)
(***************************************************************************)
EXTENDS Naturals, Sequences, FiniteSets, TLC

VARIABLES tenants, req, running, cur, users, appointments

vars == <<tenants, req, running, cur, users, appointments>>

\* the collections that neither the resolver nor the tenant writers touch
data == <<users, appointments>>

----------------------------------------------------------------------------
(* Bounds *)

NumRequests == 2

Requests == 1..NumRequests

----------------------------------------------------------------------------
(* Optional values and JavaScript truthiness *)

None == [some |-> FALSE, v |-> <<>>]

Some(s) == [some |-> TRUE, v |-> s]

\* !!x for x a string, null or undefined: the empty string is falsy
Truthy(x) == x.some /\ x.v # <<>>

\* a || b
OrElse(a, b) == IF Truthy(a) THEN a ELSE b

----------------------------------------------------------------------------
(* String helpers *)

Includes(s, tok) == \E i \in 1..Len(s) : s[i] = tok

\* index of the first occurrence of tok in s, Len(s)+1 when there is none
RECURSIVE FirstIndex(_, _, _)
FirstIndex(s, tok, i) ==
    IF i > Len(s) THEN Len(s) + 1
    ELSE IF s[i] = tok THEN i
    ELSE FirstIndex(s, tok, i + 1)

\* s.split(tok)
RECURSIVE Split(_, _)
Split(s, tok) ==
    LET k == FirstIndex(s, tok, 1)
    IN  IF k > Len(s) THEN <<s>>
        ELSE <<SubSeq(s, 1, k - 1)>> \o Split(SubSeq(s, k + 1, Len(s)), tok)

\* s.startsWith(p)
StartsWith(s, p) == Len(s) >= Len(p) /\ SubSeq(s, 1, Len(p)) = p

----------------------------------------------------------------------------
(* extractTenantDomain *)

Localhost == <<"localhost">>

Loopback == <<"127", ".", "0", ".", "0", ".", "1">>

Landscape360 == <<"landscape360", ".", "com">>

WwwLandscape360 == <<"www", ".", "landscape360", ".", "com">>

DelxnClub == <<"delxn", ".", "club">>

WwwDelxnClub == <<"www", ".", "delxn", ".", "club">>

OnRender ==
    <<"backend", "-", "rochin", "-", "landscaping", ".", "onrender", ".", "com">>

\* line 10: host.split(':')[0]
StripPortMutKeepsPort(host) == host

StripPort(host) == Split(host, ":")[1]

\* line 33: parts.length >= 3 && parts[0] !== 'www'
HasSubdomainMutFourLabels(parts) == Len(parts) > 3 /\ parts[1] # <<"www">>

HasSubdomain(parts) == Len(parts) >= 3 /\ parts[1] # <<"www">>

\* line 39: return domain
WholeDomainMutStripsWww(domain) ==
    IF StartsWith(domain, <<"www", ".">>)
    THEN Some(SubSeq(domain, 3, Len(domain)))
    ELSE Some(domain)

WholeDomain(domain) == Some(domain)

extractTenantDomain(host) ==
    IF ~Truthy(host) THEN None
    ELSE
      LET domain == StripPort(host.v)
          parts  == Split(domain, ".")
      IN  IF domain = Localhost \/ domain = Loopback THEN None
          ELSE IF \/ domain = WwwLandscape360 \/ domain = Landscape360
                  \/ domain = DelxnClub \/ domain = WwwDelxnClub
                  \/ domain = OnRender
               THEN None
          ELSE IF Includes(domain, "-") /\ ~Includes(domain, ".") THEN Some(domain)
          ELSE IF HasSubdomain(parts) THEN Some(parts[1])
          ELSE WholeDomain(domain)

----------------------------------------------------------------------------
(* Tenant Directory: the tenants collection *)

Statuses == {"active", "inactive", "trialing", "suspended"}

TenantIds == {"t1", "t2"}

SubdomainOf(t) == IF t = "t1" THEN <<"acme">> ELSE <<"beta">>

AcmeApex == <<"acmelawn", ".", "com">>

BetaCustom == <<"betagardens", ".", "com">>

\* tenantSchema.domain: the primary apex domain of a tenant that has one
DomainOf(t) == IF t = "t1" THEN Some(AcmeApex) ELSE None

\* tenantSchema.customDomains
CustomDomainsOf(t) == IF t = "t2" THEN {BetaCustom} ELSE {}

NoTenant ==
    [id |-> "none", subdomain |-> <<>>, status |-> "none", domain |-> None,
     customDomains |-> {}]

\* what the await of Tenant.findOne leaves when the query rejects
Rejected ==
    [id |-> "error", subdomain |-> <<>>, status |-> "none", domain |-> None,
     customDomains |-> {}]

\* super-admin createTenant stores subscription.status 'trialing'; domain and
\* customDomains are what updateTenant stored afterwards
NewTenant(t) ==
    [id |-> t, subdomain |-> SubdomainOf(t), status |-> "trialing",
     domain |-> DomainOf(t), customDomains |-> CustomDomainsOf(t)]

\* Tenant.findOne({ subdomain: key }): the documents the query matches
findOne(key) == {t \in tenants : t.subdomain = key}

\* the directory after Tenant.findOne(...): a query, not findOneAndUpdate or
\* findOneAndDelete
AfterFindOneMutDeletes(key) == tenants \ findOne(key)

AfterFindOne(key) == tenants

\* Tenant.findByIdAndUpdate(id, { 'subscription.status': s })
SetStatus(id, s) ==
    {IF t.id = id THEN [t EXCEPT !.status = s] ELSE t : t \in tenants}

----------------------------------------------------------------------------
(* Tenant Context Store: utils/tenantContext *)

Undefined == [kind |-> "undefined", tenantId |-> "none", tenant |-> NoTenant]

EmptyCtx == [kind |-> "empty", tenantId |-> "none", tenant |-> NoTenant]

\* { tenantId: tenant._id, tenant: tenant }
TenantCtx(t) == [kind |-> "tenant", tenantId |-> t.id, tenant |-> t]

\* run(store, continuation): the store that is current while continuation runs
run(store) == store

\* getStore(): the store of the code that is running now
getStore == cur

\* a process-wide cell keeps the store of whoever ran last
ResumeShared(r) == cur

\* the store a continuation of request r finds when it is resumed after an
\* await: the one that was current when the await suspended it
Resume(r) == req[r].saved

----------------------------------------------------------------------------
(* Requests *)

ApiAdmin == <<"/", "api", "/", "v1", "/", "admin">>

ApiSuperAdmin == <<"/", "api", "/", "v1", "/", "super-admin">>

GalleryMount == <<"/", "api", "/", "v1", "/", "gallery">>

PortfolioMount == <<"/", "api", "/", "v1", "/", "portfolio">>

RegisterPath == <<"/", "api", "/", "v1", "/", "auth", "/", "register">>

GalleryPath == GalleryMount \o <<"/">>

PortfolioPath == PortfolioMount \o <<"/">>

AdminTenantsPath == ApiAdmin \o <<"/", "tenants">>

SuperAdminTenantsPath == ApiSuperAdmin \o <<"/", "tenants">>

AcmeHost == <<"acme", ".", "example", ".", "com">>

BetaHost == <<"beta", ".", "example", ".", "com">>

GhostHost == <<"ghost", ".", "example", ".", "com">>

LocalhostPort == <<"localhost", ":", "5000">>

\* the routes whose router runs resolveTenant again before the handler
RouteLevelResolve(path) ==
    StartsWith(path, GalleryMount) \/ StartsWith(path, PortfolioMount)

\* req.path as a middleware sees it: the router's mount path is stripped
\* inside the router
ReqPath(path, stage) ==
    IF stage = 1 THEN path
    ELSE IF StartsWith(path, GalleryMount)
         THEN SubSeq(path, Len(GalleryMount) + 1, Len(path))
    ELSE IF StartsWith(path, PortfolioMount)
         THEN SubSeq(path, Len(PortfolioMount) + 1, Len(path))
    ELSE path

\* req.user when no authentication middleware set it
NoUser == [role |-> "none", tenantId |-> "none"]

\* req.user: the authenticated principal; tenantId "none" is a user document
\* without a tenantId
Users ==
    {[role |-> ro, tenantId |-> t] :
        ro \in {"superAdmin", "tenantAdmin", "customer"},
        t \in {"none"} \cup TenantIds}

\* req.body of a request that carries no credentials
NoBody == [email |-> "", password |-> ""]

\* req.body of a request that updates nothing: the keys at its top level and
\* the keys inside its $set
NoUpdate == [top |-> {}, set |-> {}]

\* crew: { leadProfessional: null, assignedTo: [] }
NoCrew == [leadProfessional |-> "none", assignedTo |-> {}]

\* req.body of a request that books nothing; hour 0 is an absent time
NoBooking ==
    [customer |-> "none", service |-> "none", date |-> "none", startTime |-> 0,
     endTime |-> 0]

Idle ==
    [pc |-> "idle", host |-> None, xsub |-> None, xdom |-> None, path |-> <<>>,
     stage |-> 1, query |-> None, found |-> NoTenant, saved |-> Undefined,
     tenant |-> NoTenant, outcomes |-> <<>>, reads |-> {}, handled |-> FALSE,
     status |-> 0, abortedIn |-> 0, user |-> NoUser, access |-> "none",
     seen |-> Undefined, body |-> NoBody, message |-> "", token |-> FALSE,
     op |-> "none", params |-> "none", update |-> NoUpdate,
     crew |-> NoCrew, booking |-> NoBooking, sig |-> "none"]

\* one finished run of resolveTenant: what the lookup gave ("none" when there
\* was no lookup), the status code and the store it published
Outcome(lookup, t, code, ctx) ==
    [lookup |-> lookup, tenant |-> t, code |-> code, ctx |-> ctx]

----------------------------------------------------------------------------
(* resolveTenant *)

\* lines 45-49: the key the directory is asked for
TenantDomainMutPrecedence(host, headerSubdomain, headerDomain) ==
    OrElse(OrElse(extractTenantDomain(host), headerSubdomain),
           IF Truthy(headerDomain) THEN extractTenantDomain(headerDomain) ELSE None)

TenantDomain(host, headerSubdomain, headerDomain) ==
    LET resolvedFromHeader ==
            OrElse(headerSubdomain,
                   IF Truthy(headerDomain) THEN extractTenantDomain(headerDomain)
                   ELSE None)
    IN  OrElse(resolvedFromHeader, extractTenantDomain(host))

\* line 52: no tenant domain, or an administrative path
NoTenantScopeMutNoPath(tenantDomain, path) == ~Truthy(tenantDomain)

NoTenantScopeMutNoKey(tenantDomain, path) ==
    StartsWith(path, ApiAdmin) \/ StartsWith(path, ApiSuperAdmin)

NoTenantScope(tenantDomain, path) ==
    \/ ~Truthy(tenantDomain)
    \/ StartsWith(path, ApiAdmin)
    \/ StartsWith(path, ApiSuperAdmin)

\* line 67: tenant.subscription?.status === 'inactive'
IsInactiveMutNotActive(t) == t.status # "active"

IsInactiveMutSuspended(t) == t.status = "suspended"

IsInactive(t) == t.status = "inactive"

\* line 57 inside asyncHandler: the rejected await throws out of resolveTenant
\* and the wrapper passes the error to next(err)
ThrewMutSwallowed(tenant) == FALSE

Threw(tenant) == tenant = Rejected

\* line 59: !tenant
NotFoundMutNever(tenant) == FALSE

NotFound(tenant) == tenant = NoTenant

\* next() after a published context: the router's own resolveTenant when the
\* route has one and it has not run yet, the route handler otherwise
Proceed(rr) ==
    IF rr.stage = 1 /\ RouteLevelResolve(rr.path)
    THEN [rr EXCEPT !.stage = 2, !.pc = "resolve"]
    ELSE [rr EXCEPT !.pc = "handler"]

\* return next(new ErrorResponse(..., code)): the error handler answers, and
\* neither the rest of resolveTenant nor a route handler runs
RejectMutFallThrough(rr, code) == Proceed([rr EXCEPT !.status = code])

Reject(rr, code) == [rr EXCEPT !.pc = "done", !.status = code]

\* a request arrives and reaches the application-level resolveTenant
Arrive(r, h) ==
    /\ running = 0
    /\ req[r].pc \in {"idle", "done"}
    /\ req' = [req EXCEPT ![r] =
                 [Idle EXCEPT !.pc = "resolve", !.host = h.host, !.xsub = h.xsub,
                              !.xdom = h.xdom, !.path = h.path]]
    /\ running' = r
    /\ cur' = Undefined
    /\ UNCHANGED <<tenants, data>>

\* lines 43-57: up to the await of Tenant.findOne
ResolveStart(r) ==
    /\ running = r
    /\ req[r].pc = "resolve"
    /\ LET rr == req[r]
           tenantDomain == TenantDomain(rr.host, rr.xsub, rr.xdom)
       IN  IF NoTenantScope(tenantDomain, ReqPath(rr.path, rr.stage))
           THEN /\ cur' = run(EmptyCtx)
                /\ req' = [req EXCEPT ![r] =
                             Proceed([rr EXCEPT !.outcomes =
                                 Append(@, Outcome("none", NoTenant, 200, EmptyCtx))])]
                /\ UNCHANGED running
           ELSE /\ req' = [req EXCEPT ![r] =
                             [rr EXCEPT !.pc = "await", !.query = tenantDomain,
                                        !.saved = getStore]]
                /\ running' = 0
                /\ UNCHANGED cur
    /\ UNCHANGED <<tenants, data>>

\* the database answers Tenant.findOne({ subdomain: tenantDomain }), or the
\* query rejects
DbFindOne(r) ==
    /\ running = 0
    /\ req[r].pc = "await"
    /\ \/ /\ findOne(req[r].query.v) = {}
          /\ req' = [req EXCEPT ![r].pc = "ready", ![r].found = NoTenant]
       \/ \E t \in findOne(req[r].query.v) :
             req' = [req EXCEPT ![r].pc = "ready", ![r].found = t]
       \/ req' = [req EXCEPT ![r].pc = "ready", ![r].found = Rejected]
    /\ tenants' = AfterFindOne(req[r].query.v)
    /\ UNCHANGED <<running, cur, data>>

\* the client aborts request r while Tenant.findOne is in flight.  resolveTenant
\* registers no listener for it and passes no signal to the query, so nothing
\* but the record of the abort (the stage whose lookup it interrupted) changes
Abort(r) ==
    /\ running = 0
    /\ req[r].pc = "await"
    /\ req[r].abortedIn = 0
    /\ req' = [req EXCEPT ![r].abortedIn = req[r].stage]
    /\ UNCHANGED <<tenants, running, cur, data>>

\* lines 59-75: after the await
ResolveResume(r) ==
    /\ running = 0
    /\ req[r].pc = "ready"
    /\ LET rr == req[r]
           tenant == rr.found
           lookup == IF tenant = Rejected THEN "error"
                     ELSE IF tenant = NoTenant THEN "miss" ELSE "hit"
       IN  IF Threw(tenant)
           THEN /\ req' = [req EXCEPT ![r] =
                             Reject([rr EXCEPT !.outcomes = Append(@,
                                 Outcome(lookup, tenant, 500, Undefined))], 500)]
                /\ cur' = Resume(r)
           ELSE IF NotFound(tenant)
           THEN /\ req' = [req EXCEPT ![r] =
                             Reject([rr EXCEPT !.outcomes = Append(@,
                                 Outcome(lookup, tenant, 404, Undefined))], 404)]
                /\ cur' = Resume(r)
           ELSE IF IsInactive(tenant)
           THEN /\ req' = [req EXCEPT ![r] =
                             Reject([rr EXCEPT !.tenant = tenant,
                                 !.outcomes = Append(@,
                                     Outcome(lookup, tenant, 403, Undefined))], 403)]
                /\ cur' = Resume(r)
           ELSE /\ req' = [req EXCEPT ![r] =
                             Proceed([rr EXCEPT !.tenant = tenant,
                                 !.outcomes = Append(@,
                                     Outcome(lookup, tenant, 200, TenantCtx(tenant)))])]
                /\ cur' = run(TenantCtx(tenant))
    /\ running' = IF req'[r].pc \in {"resolve", "handler"} THEN r ELSE 0
    /\ UNCHANGED <<tenants, data>>

----------------------------------------------------------------------------
(* validateTenantAccess *)

\* line 82: req.user?.role === 'superAdmin'
IsSuperAdminMutNever(user) == FALSE

IsSuperAdmin(user) == user.role = "superAdmin"

\* line 87: !store?.tenantId
NoTenantId(store) == store.tenantId = "none"

\* line 92: req.user && req.user.tenantId?.toString() !== store.tenantId.toString()
MismatchMutMissingPasses(user, store) ==
    user # NoUser /\ user.tenantId # "none" /\ user.tenantId # store.tenantId

Mismatch(user, store) == user # NoUser /\ user.tenantId # store.tenantId

\* lines 79-98, in the chain of request r after resolveTenant called next()
\* under the store it published; user is what authentication left in req.user
validateTenantAccess(r, user) ==
    /\ running = r
    /\ req[r].pc = "handler"
    /\ req[r].access = "none"
    /\ LET store == getStore
           rr == [req[r] EXCEPT !.user = user, !.seen = store]
       IN  IF IsSuperAdmin(user) \/ NoTenantId(store)
           THEN /\ req' = [req EXCEPT ![r] = [rr EXCEPT !.access = "next"]]
                /\ UNCHANGED running
           ELSE IF Mismatch(user, store)
           THEN /\ req' = [req EXCEPT ![r] =
                             Reject([rr EXCEPT !.access = "denied"], 403)]
                /\ running' = 0
           ELSE /\ req' = [req EXCEPT ![r] = [rr EXCEPT !.access = "next"]]
                /\ UNCHANGED running
    /\ UNCHANGED <<tenants, cur, data>>

----------------------------------------------------------------------------
(* Route handlers *)

\* getGalleries reads the store before its first await
ReadsAtStart(path) == StartsWith(path, GalleryMount)

\* register reads the store after it awaited User.findOne
ReadsAfterAwait(path) == path = RegisterPath

\* the route handler runs up to its first await
HandlerStart(r) ==
    /\ running = r
    /\ req[r].pc = "handler"
    /\ req' = [req EXCEPT ![r].pc = "hawait", ![r].handled = TRUE,
                          ![r].saved = getStore,
                          ![r].reads = IF ReadsAtStart(req[r].path)
                                       THEN @ \cup {getStore} ELSE @]
    /\ running' = 0
    /\ UNCHANGED <<tenants, cur, data>>

\* the route handler continues after its await and answers
HandlerResume(r) ==
    /\ running = 0
    /\ req[r].pc = "hawait"
    /\ cur' = Resume(r)
    /\ req' = [req EXCEPT ![r].pc = "done", ![r].status = 200,
                          ![r].reads = IF ReadsAfterAwait(req[r].path)
                                       THEN @ \cup {cur'} ELSE @]
    /\ UNCHANGED <<tenants, running, data>>

----------------------------------------------------------------------------
(* Writers of the Tenant Directory.  They run in requests of their own; a  *)
(* database write takes effect between two segments of the event loop.     *)

suspendTenant(id) ==
    /\ running = 0
    /\ \E t \in tenants : t.id = id /\ t.status # "suspended"
    /\ tenants' = SetStatus(id, "suspended")
    /\ UNCHANGED <<req, running, cur, data>>

activateTenant(id) ==
    /\ running = 0
    /\ \E t \in tenants : t.id = id /\ t.status # "active"
    /\ tenants' = SetStatus(id, "active")
    /\ UNCHANGED <<req, running, cur, data>>

deleteTenant(id) ==
    /\ running = 0
    /\ \E t \in tenants : t.id = id
    /\ tenants' = {t \in tenants : t.id # id}
    /\ UNCHANGED <<req, running, cur, data>>

\* admin updateTenantStatus: PUT /api/v1/admin/tenants/:id/status
updateTenantStatus(id, s) ==
    /\ running = 0
    /\ \E t \in tenants : t.id = id /\ t.status # s
    /\ tenants' = SetStatus(id, s)
    /\ UNCHANGED <<req, running, cur, data>>

----------------------------------------------------------------------------
(* The users collection *)

\* user documents: the fields updateUser and deleteUser read and protect
UserDoc(id, role, tenantId) ==
    [id |-> id, name |-> "old", role |-> role, tenantId |-> tenantId,
     isEmailVerified |-> FALSE, password |-> "hash"]

InitialUsers ==
    {UserDoc("u1", "customer", "t1"), UserDoc("u2", "tenantAdmin", "t1"),
     UserDoc("u3", "superAdmin", "t1"), UserDoc("u4", "customer", "none")}

----------------------------------------------------------------------------
(* The appointments collection *)

\* appointment documents: the indexed fields, the status and the crew; times
\* are hours of the day
Appointment(id, service, date, startTime, endTime) ==
    [id |-> id, service |-> service, date |-> date, startTime |-> startTime,
     endTime |-> endTime, status |-> "Pending", customer |-> "c0",
     crew |-> NoCrew]

\* two appointments of one day whose time slots overlap
InitialAppointments ==
    {Appointment("a1", "s1", "d1", 8, 10), Appointment("a2", "s2", "d1", 9, 11)}

----------------------------------------------------------------------------
(* Specifications *)

Input(host, xsub, xdom, path) ==
    [host |-> host, xsub |-> xsub, xdom |-> xdom, path |-> path]

\* requests for two tenants, by Host, on the routes whose handlers read the store
TenantInputs ==
    {Input(Some(h), None, None, p) :
        h \in {AcmeHost, BetaHost}, p \in {RegisterPath, GalleryPath}}

\* every way of naming a tenant, on every kind of route
AllInputs ==
    {Input(h, s, d, p) :
        h \in {None, Some(LocalhostPort), Some(WwwDelxnClub), Some(AcmeHost),
               Some(GhostHost)},
        s \in {None, Some(<<>>), Some(<<"beta">>)},
        d \in {None, Some(LocalhostPort), Some(BetaHost)},
        p \in {RegisterPath, GalleryPath, PortfolioPath, AdminTenantsPath,
               SuperAdminTenantsPath}}

Init ==
    /\ tenants = {NewTenant(t) : t \in TenantIds}
    /\ req = [r \in Requests |-> Idle]
    /\ running = 0
    /\ cur = Undefined
    /\ users = InitialUsers
    /\ appointments = InitialAppointments

Step(r) ==
    \/ ResolveStart(r)
    \/ DbFindOne(r)
    \/ ResolveResume(r)
    \/ HandlerStart(r)
    \/ HandlerResume(r)

Write(id) ==
    \/ suspendTenant(id)
    \/ activateTenant(id)
    \/ deleteTenant(id)
    \/ \E s \in {"active", "inactive", "trialing"} : updateTenantStatus(id, s)

\* concurrent requests of tenants
Next ==
    \/ \E r \in Requests : \E h \in TenantInputs : Arrive(r, h)
    \/ \E r \in Requests : Step(r)
    \/ \E id \in TenantIds : Write(id)

Spec == Init /\ [][Next]_vars

\* one request at a time, with every combination of headers and path
NextHeaders ==
    \/ \E h \in AllInputs : Arrive(1, h)
    \/ Step(1)
    \/ \E id \in TenantIds : Write(id)

SpecHeaders == Init /\ [][NextHeaders]_vars

\* requests named by Host alone: a tenant's subdomain host and the apex hosts
\* that tenants store as domain or customDomains
DomainInputs ==
    {Input(Some(h), None, None, p) :
        h \in {AcmeHost, AcmeApex, BetaCustom},
        p \in {RegisterPath, GalleryPath, PortfolioPath}}

\* one request at a time, which its client may abort during a lookup
NextDomains ==
    \/ \E h \in DomainInputs : Arrive(1, h)
    \/ Step(1)
    \/ Abort(1)
    \/ \E id \in TenantIds : Write(id)

SpecDomains == Init /\ [][NextDomains]_vars

\* requests by Host on tenant, admin and route-resolved paths
AccessInputs ==
    {Input(h, None, None, p) :
        h \in {None, Some(AcmeHost), Some(BetaHost), Some(GhostHost)},
        p \in {RegisterPath, PortfolioPath, AdminTenantsPath}}

\* one request at a time on routes that may put validateTenantAccess, with
\* any authenticated or absent user, between resolveTenant and the handler
NextAccess ==
    \/ \E h \in AccessInputs : Arrive(1, h)
    \/ Step(1)
    \/ \E user \in Users \cup {NoUser} : validateTenantAccess(1, user)
    \/ \E id \in TenantIds : Write(id)

SpecAccess == Init /\ [][NextAccess]_vars

\* the longest host name drawn token by token
MaxHostLen == 5

\* the names of at most n tokens over labels, '.' and '-'
RECURSIVE NamesUpTo(_)
NamesUpTo(n) ==
    IF n = 0 THEN {<<>>}
    ELSE LET shorter == NamesUpTo(n - 1)
         IN  shorter \cup
             {Append(s, tok) : s \in shorter,
                               tok \in {"www", "acme", "com", ".", "-"}}

ReservedHosts ==
    {Localhost, Loopback, Landscape360, WwwLandscape360, DelxnClub,
     WwwDelxnClub, OnRender}

\* Host header values: a name, with or without a :port suffix
ExtractHosts ==
    LET names == NamesUpTo(MaxHostLen) \cup ReservedHosts \cup
                 {AcmeHost, AcmeApex,
                  <<"www", ".", "acme", ".", "example", ".", "com">>,
                  <<"my", "-", "site", ".", "example", ".", "com">>,
                  <<"api", ".", "landscape360", ".", "com">>,
                  <<"localhost", ".", "acme", ".", "com">>}
    IN  {None} \cup {Some(n) : n \in names}
               \cup {Some(n \o <<":", "5000">>) : n \in names}

\* a request whose Host header is any of the hosts
InitExtract ==
    /\ tenants = {NewTenant(t) : t \in TenantIds}
    /\ \E h \in ExtractHosts :
          req = [r \in Requests |-> IF r = 1 THEN [Idle EXCEPT !.host = h]
                                             ELSE Idle]
    /\ running = 0
    /\ cur = Undefined
    /\ users = InitialUsers
    /\ appointments = InitialAppointments

\* line 49: extractTenantDomain(req.headers.host)
Extract(r) ==
    /\ req[r].pc = "idle"
    /\ req' = [req EXCEPT ![r].pc = "extracted",
                          ![r].query = extractTenantDomain(req[r].host)]
    /\ UNCHANGED <<tenants, running, cur, data>>

NextExtract == Extract(1)

SpecExtract == InitExtract /\ [][NextExtract]_vars

----------------------------------------------------------------------------
(* Properties *)

OutcomesOf(r) == {req[r].outcomes[i] : i \in 1..Len(req[r].outcomes)}

\* the stores resolveTenant published for request r
PublishedFor(r) == {o.ctx : o \in {x \in OutcomesOf(r) : x.code = 200}}

\* the number of times resolveTenant runs for a request on this path
Resolutions(path) ==
    IF path \in {GalleryPath, PortfolioPath} THEN 2 ELSE 1

\* C1: every store a handler of a request reads is a store that resolveTenant
\* published for that same request, however the requests interleave at their
\* awaits.
C1_OwnContextOnly ==
    \A r \in Requests : req[r].reads \subseteq PublishedFor(r)

\* two requests of different tenants are in flight after their resolution,
\* and one of them has read its store
C1_Witness ==
    \E r1, r2 \in Requests :
        /\ r1 # r2
        /\ req[r1].pc = "hawait" /\ req[r2].pc = "hawait"
        /\ req[r1].saved.kind = "tenant" /\ req[r2].saved.kind = "tenant"
        /\ req[r1].saved.tenantId # req[r2].saved.tenantId
        /\ req[r1].reads = {req[r1].saved}

\* C2: a run of resolveTenant whose lookup returned a tenant with status
\* 'inactive' ends with 403 and publishes no store, it is the last run for
\* the request, and the request's route handler never executes.
C2_InactiveRejected ==
    \A r \in Requests : \A i \in 1..Len(req[r].outcomes) :
        LET o == req[r].outcomes[i]
        IN  (o.lookup = "hit" /\ o.tenant.status = "inactive") =>
               /\ o.code = 403
               /\ o.ctx = Undefined
               /\ i = Len(req[r].outcomes)
               /\ req[r].pc = "done" /\ req[r].status = 403
               /\ ~req[r].handled

C2_Witness ==
    \E r \in Requests :
        /\ req[r].pc = "done" /\ req[r].status = 403
        /\ Len(req[r].outcomes) = 1
        /\ req[r].outcomes[1].tenant.status = "inactive"
        /\ req[r].outcomes[1].tenant.subdomain = req[r].query.v

\* C3: a run of resolveTenant whose lookup matched no tenant ends with 404
\* and publishes no store, it is the last run for the request, and the
\* request's route handler never executes.
C3_MissingRejected ==
    \A r \in Requests : \A i \in 1..Len(req[r].outcomes) :
        LET o == req[r].outcomes[i]
        IN  o.lookup = "miss" =>
               /\ o.code = 404
               /\ o.ctx = Undefined
               /\ i = Len(req[r].outcomes)
               /\ req[r].pc = "done" /\ req[r].status = 404
               /\ ~req[r].handled

C3_Witness ==
    \E r \in Requests :
        /\ req[r].pc = "done" /\ req[r].status = 404
        /\ Len(req[r].outcomes) = 1
        /\ req[r].outcomes[1].lookup = "miss"
        /\ Truthy(req[r].query)

\* the store the rest of the chain of request r runs in, when it is defined
ChainStore(r) ==
    IF running = r THEN {cur}
    ELSE IF req[r].pc \in {"await", "ready", "hawait"} THEN {req[r].saved}
    ELSE {}

\* C4: a run of resolveTenant whose lookup returned a tenant with status
\* 'active' or 'trialing' publishes a store whose tenantId is that tenant's
\* id, and what runs next for the request (the router's resolveTenant, the
\* route handler) runs inside that store.
C4_ActivePublished ==
    \A r \in Requests : \A i \in 1..Len(req[r].outcomes) :
        LET o == req[r].outcomes[i]
        IN  (o.lookup = "hit" /\ o.tenant.status \in {"active", "trialing"}) =>
               /\ o.code = 200
               /\ o.ctx.kind = "tenant"
               /\ o.ctx.tenantId = o.tenant.id
               /\ o.ctx.tenant = o.tenant
               /\ i = Len(req[r].outcomes) =>
                     /\ ChainStore(r) \subseteq {o.ctx}
                     /\ req[r].pc # "done" => ChainStore(r) # {}
                     /\ req[r].handled => req[r].reads \subseteq {o.ctx}

C4_Witness ==
    \E r \in Requests :
        /\ req[r].pc = "done" /\ req[r].handled
        /\ req[r].outcomes[Len(req[r].outcomes)].tenant.status = "trialing"
        /\ req[r].outcomes[Len(req[r].outcomes)].tenant.subdomain = req[r].query.v
        /\ req[r].reads = {req[r].outcomes[Len(req[r].outcomes)].ctx}

\* C5: the route handler of a request executes only after every run of
\* resolveTenant for it has published a store, and never once a run of
\* resolveTenant has ended with an error.
C5_ResolveBeforeHandler ==
    \A r \in Requests :
        /\ req[r].handled =>
              /\ Len(req[r].outcomes) = Resolutions(req[r].path)
              /\ \A o \in OutcomesOf(r) : o.code = 200
        /\ req[r].pc \in {"resolve", "await", "ready"} => ~req[r].handled
        /\ (\E o \in OutcomesOf(r) : o.code # 200) =>
              ~req[r].handled /\ req[r].pc = "done"

C5_Witness ==
    \E r1, r2 \in Requests :
        /\ req[r1].handled /\ Len(req[r1].outcomes) = 2
        /\ req[r2].pc = "done" /\ req[r2].status = 404 /\ ~req[r2].handled

\* C6: a request has one resolution outcome: all runs of resolveTenant for it
\* end the same way, and with the same published store, also on the routes
\* that run resolveTenant twice and while tenants are written.
C6_OneOutcome ==
    \A r \in Requests :
        Cardinality({<<o.code, o.ctx>> : o \in OutcomesOf(r)}) <= 1

\* C7: with a non-empty X-Tenant-Subdomain header, the key of the directory
\* lookup is that header's value, whatever X-Tenant-Domain and Host are.
C7_SubdomainHeaderFirst ==
    \A r \in Requests :
        (req[r].query.some /\ Truthy(req[r].xsub)) => req[r].query = req[r].xsub

\* the header names beta while Host names acme
C7_Witness ==
    \E r \in Requests :
        /\ req[r].pc = "await"
        /\ req[r].xsub = Some(<<"beta">>)
        /\ req[r].host = Some(AcmeHost)
        /\ req[r].xdom = Some(LocalhostPort)
        /\ req[r].query = Some(<<"beta">>)

\* C8: without X-Tenant-Subdomain and with X-Tenant-Domain, the lookup key is
\* extractTenantDomain(X-Tenant-Domain) and Host is not consulted: when the
\* header names a reserved host there is no lookup and the empty store is
\* published, whatever Host is.
C8_DomainHeaderOnly ==
    \A r \in Requests :
        (~req[r].xsub.some /\ Truthy(req[r].xdom)) =>
            /\ req[r].query.some =>
                  req[r].query = extractTenantDomain(req[r].xdom)
            /\ req[r].xdom = Some(LocalhostPort) =>
                  /\ ~req[r].query.some
                  /\ \A o \in OutcomesOf(r) : o.lookup = "none" /\ o.ctx = EmptyCtx

\* C9: a request on /api/v1/admin or /api/v1/super-admin gets the empty store
\* and proceeds: no lookup, no error, whatever the headers and the directory.
C9_AdminPathUnscoped ==
    \A r \in Requests :
        req[r].path \in {AdminTenantsPath, SuperAdminTenantsPath} =>
            /\ ~req[r].query.some
            /\ req[r].pc \notin {"await", "ready"}
            /\ req[r].status \in {0, 200}
            /\ \A o \in OutcomesOf(r) :
                  o.lookup = "none" /\ o.code = 200 /\ o.ctx = EmptyCtx
            /\ req[r].pc \in {"handler", "hawait", "done"} =>
                  Len(req[r].outcomes) = 1
            /\ req[r].pc = "done" => req[r].handled

\* the header names a tenant that is not in the directory
C9_Witness ==
    \E r \in Requests :
        /\ req[r].path = SuperAdminTenantsPath
        /\ req[r].xsub = Some(<<"beta">>)
        /\ req[r].host = Some(GhostHost)
        /\ findOne(<<"beta">>) = {}
        /\ req[r].pc = "done" /\ req[r].handled
        /\ req[r].outcomes = <<Outcome("none", NoTenant, 200, EmptyCtx)>>

\* the hosts of the requests that extractTenantDomain gives no key for
NoKeyHosts == {None, Some(LocalhostPort), Some(WwwDelxnClub)}

\* C10: with no override header and a reserved host (or none), resolveTenant
\* publishes the empty store and the request proceeds: no lookup and no
\* error, TenantNotFound included.
C10_NoKeyUnscoped ==
    \A r \in Requests :
        (/\ req[r].pc # "idle"
         /\ ~Truthy(req[r].xsub)
         /\ req[r].xdom \in NoKeyHosts
         /\ req[r].host \in NoKeyHosts) =>
            /\ ~req[r].query.some
            /\ req[r].pc \notin {"await", "ready"}
            /\ req[r].status \in {0, 200}
            /\ \A o \in OutcomesOf(r) :
                  o.lookup = "none" /\ o.code = 200 /\ o.ctx = EmptyCtx
            /\ req[r].pc = "done" =>
                  /\ req[r].handled
                  /\ Len(req[r].outcomes) = Resolutions(req[r].path)

\* a request of the platform host on a route that is not administrative
C10_Witness ==
    \E r \in Requests :
        /\ req[r].path = GalleryPath
        /\ req[r].xsub = None /\ req[r].xdom = None
        /\ req[r].host = Some(WwwDelxnClub)
        /\ req[r].pc = "done" /\ req[r].handled
        /\ req[r].reads = {EmptyCtx}
        /\ Len(req[r].outcomes) = 2

\* C11: a run of resolveTenant whose lookup returned a tenant with status
\* 'suspended' is rejected: it publishes no store and the request's route
\* handler never executes.
C11_SuspendedRejected ==
    \A r \in Requests : \A i \in 1..Len(req[r].outcomes) :
        LET o == req[r].outcomes[i]
        IN  (o.lookup = "hit" /\ o.tenant.status = "suspended") =>
               /\ o.code # 200
               /\ o.ctx = Undefined
               /\ ~req[r].handled

\* the tenants of the directory that store host as their domain or among
\* their customDomains
AliasedBy(host) ==
    {t \in tenants : t.domain = Some(host) \/ host \in t.customDomains}

\* C12: a request whose Host is an apex hostname that a tenant stores as its
\* domain or in its customDomains resolves to that tenant: the lookup returns
\* it, and a published store carries its id.
C12_CustomDomainResolves ==
    \A r \in Requests :
        (/\ req[r].pc = "done"
         /\ req[r].xsub = None /\ req[r].xdom = None
         /\ req[r].host \in {Some(AcmeApex), Some(BetaCustom)}
         /\ AliasedBy(req[r].host.v) # {}) =>
            /\ req[r].outcomes[1].lookup = "hit"
            /\ req[r].outcomes[1].tenant.id \in {t.id : t \in AliasedBy(req[r].host.v)}
            /\ req[r].outcomes[1].code = 200 =>
                  req[r].outcomes[1].ctx.tenantId = req[r].outcomes[1].tenant.id

\* C13: a run of resolveTenant whose Tenant.findOne rejected ends with an
\* error that is not the 404 'Tenant not found', publishes no store, and the
\* request's route handler never executes.
C13_LookupFailurePropagates ==
    \A r \in Requests : \A i \in 1..Len(req[r].outcomes) :
        LET o == req[r].outcomes[i]
        IN  o.lookup = "error" =>
               /\ o.code \notin {200, 404}
               /\ o.ctx = Undefined
               /\ ~req[r].handled
               /\ i = Len(req[r].outcomes)
               /\ req[r].pc = "done"
               /\ req[r].status = o.code

C13_Witness ==
    \E r \in Requests :
        /\ req[r].pc = "done"
        /\ req[r].outcomes # <<>>
        /\ req[r].outcomes[Len(req[r].outcomes)].lookup = "error"
        /\ req[r].query = Some(<<"acme">>)

\* C14: once a request was aborted during a directory lookup, that run of
\* resolveTenant and every later one publish no tenant store for it, and its
\* route handler does not run.
C14_AbortPublishesNothing ==
    \A r \in Requests :
        req[r].abortedIn > 0 =>
            /\ \A i \in req[r].abortedIn..Len(req[r].outcomes) :
                   req[r].outcomes[i].ctx \in {Undefined, EmptyCtx}
            /\ ~req[r].handled

\* a step of resolveTenant for request r: its synchronous part, the answer of
\* its query, or its continuation
ResolverStep(r) ==
    req[r].pc \in {"resolve", "await", "ready"} /\ req'[r].pc # req[r].pc

\* a step of validateTenantAccess for request r
ValidatorStep(r) == req[r].access = "none" /\ req'[r].access # "none"

\* C15: no step of resolveTenant or of validateTenantAccess changes the Tenant
\* Directory: the set of records and every field of each are the same after
\* the step as before it, whatever the input and the outcome.
C15_DirectoryUnchanged ==
    [][(\E r \in Requests : ResolverStep(r) \/ ValidatorStep(r)) =>
           tenants' = tenants]_vars

C15_Witness ==
    \E r \in Requests :
        /\ req[r].access = "denied"
        /\ req[r].outcomes[1].lookup = "hit"
        /\ \E t \in tenants : t.status = "suspended"
        /\ Cardinality(tenants) = 2

\* C16: when validateTenantAccess runs under a store that has a tenantId, for
\* an authenticated user whose role is not superAdmin, it calls next() exactly
\* when the user's tenantId is that tenantId; otherwise, a user without
\* tenantId included, the request ends 403 and its route handler does not run.
C16_MemberOnly ==
    \A r \in Requests :
        (/\ req[r].access # "none"
         /\ req[r].seen.tenantId # "none"
         /\ req[r].user \in Users
         /\ req[r].user.role # "superAdmin") =>
            /\ req[r].access = "next" <=>
                  req[r].user.tenantId = req[r].seen.tenantId
            /\ req[r].access # "next" =>
                  /\ req[r].access = "denied"
                  /\ req[r].status = 403
                  /\ req[r].pc = "done"
                  /\ ~req[r].handled

C16_Witness ==
    \E r \in Requests :
        /\ req[r].access = "denied"
        /\ req[r].seen.kind = "tenant"
        /\ req[r].user.role = "customer"
        /\ req[r].user.tenantId = "none"

\* C17: validateTenantAccess calls next() for every user whose role is
\* superAdmin, under every store, a store of another tenant than the user's
\* and a user without tenantId included.
C17_SuperAdminBypass ==
    \A r \in Requests :
        (req[r].access # "none" /\ req[r].user.role = "superAdmin") =>
            /\ req[r].access = "next"
            /\ req[r].status # 403

C17_Witness ==
    \E r \in Requests :
        /\ req[r].access = "next"
        /\ req[r].user = [role |-> "superAdmin", tenantId |-> "t2"]
        /\ req[r].seen.tenantId = "t1"
        /\ req[r].handled

\* the host without its :port suffix
WithoutPort(h) == SubSeq(h, 1, FirstIndex(h, ":", 1) - 1)

\* the number of dot-separated labels of a name, and its first label
Labels(n) == Cardinality({i \in 1..Len(n) : n[i] = "."}) + 1

FirstLabel(n) == SubSeq(n, 1, FirstIndex(n, ".", 1) - 1)

Hyphenated(n) ==
    (\E i \in 1..Len(n) : n[i] = "-") /\ ~(\E i \in 1..Len(n) : n[i] = ".")

\* C18: extractTenantDomain returns null for every reserved host, with or
\* without a :port suffix.
C18_ReservedHostsNull ==
    \A r \in Requests :
        (/\ req[r].pc = "extracted"
         /\ req[r].host.some
         /\ \E n \in ReservedHosts :
               req[r].host.v \in {n, n \o <<":", "5000">>}) =>
            req[r].query = None

C18_Witness ==
    \E r \in Requests :
        /\ req[r].pc = "extracted"
        /\ req[r].host = Some(OnRender \o <<":", "5000">>)
        /\ req[r].query = None

\* C19: for a host outside the reserved set whose name, the port stripped, has
\* three or more labels and a first label other than 'www',
\* extractTenantDomain returns the first label.
C19_FirstLabel ==
    \A r \in Requests :
        (/\ req[r].pc = "extracted"
         /\ req[r].host.some
         /\ WithoutPort(req[r].host.v) \notin ReservedHosts
         /\ Labels(WithoutPort(req[r].host.v)) >= 3
         /\ FirstLabel(WithoutPort(req[r].host.v)) # <<"www">>) =>
            req[r].query = Some(FirstLabel(WithoutPort(req[r].host.v)))

C19_Witness ==
    \E r \in Requests :
        /\ req[r].pc = "extracted"
        /\ req[r].host = Some(<<"acme", ".", "acme", ".", "com", ":", "5000">>)
        /\ req[r].query = Some(<<"acme">>)

\* C20: for a non-empty host outside the reserved set whose name, the port
\* stripped, is not a hyphenated dot-less name and has fewer than three labels
\* or 'www' as first label, extractTenantDomain returns that name unchanged,
\* a leading 'www.' included.
C20_WholeName ==
    \A r \in Requests :
        (/\ req[r].pc = "extracted"
         /\ Truthy(req[r].host)
         /\ WithoutPort(req[r].host.v) \notin ReservedHosts
         /\ ~Hyphenated(WithoutPort(req[r].host.v))
         /\ \/ Labels(WithoutPort(req[r].host.v)) < 3
            \/ FirstLabel(WithoutPort(req[r].host.v)) = <<"www">>) =>
            req[r].query = Some(WithoutPort(req[r].host.v))

C20_Witness ==
    \E r \in Requests :
        /\ req[r].pc = "extracted"
        /\ req[r].host = Some(<<"www", ".", "acme", ".", "com", ":", "5000">>)
        /\ req[r].query = Some(<<"www", ".", "acme", ".", "com">>)

\* C21: extractTenantDomain returns null whenever the host is absent, empty
\* or consists only of a :port suffix.
C21_MalformedNull ==
    \A r \in Requests :
        (/\ req[r].pc = "extracted"
         /\ req[r].host \in {None, Some(<<>>), Some(<<":", "5000">>)}) =>
            req[r].query = None

----------------------------------------------------------------------------
(* login (auth.controller.js) *)

LoginPath == <<"/", "api", "/", "v1", "/", "auth", "/", "login">>

\* the users collection as login reads it: email, role, tenantId, and the
\* password that matchPassword accepts
Accounts ==
    {[email |-> "ann@acme", role |-> "customer", tenantId |-> "t1",
      password |-> "pw-ann"],
     [email |-> "bob@beta", role |-> "tenantAdmin", tenantId |-> "t2",
      password |-> "pw-bob"],
     [email |-> "cat@none", role |-> "customer", tenantId |-> "none",
      password |-> "pw-cat"],
     [email |-> "root@platform", role |-> "superAdmin", tenantId |-> "none",
      password |-> "pw-root"]}

\* req.body of a login request
Bodies ==
    {[email |-> e, password |-> p] :
        e \in {"", "nobody@none"} \cup {a.email : a \in Accounts},
        p \in {"", "wrong"} \cup {a.password : a \in Accounts}}

\* User.findOne({ email })
findUser(email) == {a \in Accounts : a.email = email}

\* .populate('tenantId') followed by lines 137: the id of the populated tenant
\* document, undefined when the user has no tenantId or its tenant is gone
userTenantIdStr(user) ==
    IF \E t \in tenants : t.id = user.tenantId THEN user.tenantId ELSE "none"

\* line 138: userTenantIdStr !== store.tenantId.toString()
OtherTenantMutMissingPasses(user, store) ==
    userTenantIdStr(user) # "none" /\ userTenantIdStr(user) # store.tenantId

OtherTenant(user, store) == userTenantIdStr(user) # store.tenantId

\* the answer of a finished login
Answer(rr, code, message, token) ==
    [rr EXCEPT !.pc = "done", !.status = code, !.message = message,
               !.token = token]

\* lines 120-127: up to the await of User.findOne
loginStart(r, body) ==
    /\ running = r
    /\ req[r].pc = "handler"
    /\ req[r].path = LoginPath
    /\ IF body.email = "" \/ body.password = ""
       THEN req' = [req EXCEPT ![r] =
                      Answer([req[r] EXCEPT !.body = body, !.handled = TRUE],
                             400, "Please provide an email and password", FALSE)]
       ELSE req' = [req EXCEPT ![r].pc = "hawait", ![r].handled = TRUE,
                               ![r].body = body, ![r].saved = getStore]
    /\ running' = 0
    /\ UNCHANGED <<tenants, cur, data>>

\* lines 129-165: after the await, with the user the query found
loginResume(r) ==
    /\ running = 0
    /\ req[r].pc = "hawait"
    /\ req[r].path = LoginPath
    /\ cur' = Resume(r)
    /\ LET rr == [req[r] EXCEPT !.reads = @ \cup {cur'}, !.seen = cur']
           store == cur'
       IN  IF findUser(rr.body.email) = {}
           THEN req' = [req EXCEPT ![r] =
                          Answer(rr, 401, "Invalid credentials", FALSE)]
           ELSE \E user \in findUser(rr.body.email) :
                  IF /\ ~NoTenantId(store)
                     /\ user.role # "superAdmin"
                     /\ OtherTenant(user, store)
                  THEN req' = [req EXCEPT ![r] =
                                 Answer(rr, 401, "Invalid credentials", FALSE)]
                  ELSE IF rr.body.password # user.password
                  THEN req' = [req EXCEPT ![r] =
                                 Answer(rr, 401, "Invalid credentials", FALSE)]
                  ELSE req' = [req EXCEPT ![r] = Answer(rr, 200, "", TRUE)]
    /\ UNCHANGED <<tenants, running, data>>

\* login requests by Host, for a tenant or for the platform
LoginInputs ==
    {Input(Some(h), None, None, LoginPath) :
        h \in {AcmeHost, BetaHost, LocalhostPort}}

\* concurrent login requests, while tenants may be deleted
NextLogin ==
    \/ \E r \in Requests : \E h \in LoginInputs : Arrive(r, h)
    \/ \E r \in Requests : ResolveStart(r) \/ DbFindOne(r) \/ ResolveResume(r)
    \/ \E r \in Requests : \E body \in Bodies : loginStart(r, body)
    \/ \E r \in Requests : loginResume(r)
    \/ \E id \in TenantIds : deleteTenant(id)

SpecLogin == Init /\ [][NextLogin]_vars

\* the account a finished login of request r was for
AccountOf(r) == findUser(req[r].body.email)

\* the answer to a login with a wrong password
WrongPasswordAnswer == [status |-> 401, message |-> "Invalid credentials",
                        token |-> FALSE]

\* C22: a login that ran under a store with a tenantId, for a user who is no
\* superAdmin and whose tenantId is missing or another than the store's, is
\* answered exactly as a login with a wrong password: 401 'Invalid
\* credentials' and no token, whatever the password.
C22_ForeignLoginRefused ==
    \A r \in Requests :
        (/\ req[r].pc = "done"
         /\ req[r].path = LoginPath
         /\ req[r].handled
         /\ req[r].body.email # "" /\ req[r].body.password # ""
         /\ req[r].outcomes[Len(req[r].outcomes)].ctx.kind = "tenant"
         /\ \E a \in AccountOf(r) :
               /\ a.role # "superAdmin"
               /\ a.tenantId # req[r].outcomes[Len(req[r].outcomes)].ctx.tenantId) =>
            [status |-> req[r].status, message |-> req[r].message,
             token |-> req[r].token] = WrongPasswordAnswer

C22_Witness ==
    \E r \in Requests :
        /\ req[r].pc = "done"
        /\ req[r].path = LoginPath
        /\ req[r].body = [email |-> "bob@beta", password |-> "pw-bob"]
        /\ req[r].outcomes[1].ctx.tenantId = "t1"
        /\ req[r].status = 401
        /\ \E t \in tenants : t.id = "t2"

----------------------------------------------------------------------------
(* updateUser and deleteUser (user controller) *)

UserIds == {u.id : u \in InitialUsers} \cup {"u9"}

\* the principals the user router lets through authorize('tenantAdmin',
\* 'superAdmin')
Requesters ==
    {u \in Users : \/ u.role = "tenantAdmin"
                   \/ u.role = "superAdmin" /\ u.tenantId = "none"}

\* req.body of PUT /users/:id
UserUpdates ==
    {[top |-> {"name"}, set |-> {}],
     [top |-> {"role", "tenantId", "isEmailVerified", "password"}, set |-> {}],
     [top |-> {}, set |-> {"role"}]}

\* User.findById(id)
findById(id) == {u \in users : u.id = id}

\* lines 63-66 and 108-111: !requesterTenant || !targetTenant ||
\* targetTenant !== requesterTenant
OtherTenantUserMutMissingPasses(user, requester) ==
    /\ requester.tenantId # "none"
    /\ user.tenantId # "none"
    /\ user.tenantId # requester.tenantId

OtherTenantUser(user, requester) ==
    \/ requester.tenantId = "none"
    \/ user.tenantId = "none"
    \/ user.tenantId # requester.tenantId

\* lines 55-57 and 73-78: the keys deleted from req.body
Strip(body, requester) ==
    [body EXCEPT !.top =
        IF requester.role = "tenantAdmin"
        THEN @ \ {"password", "role", "tenantId", "isEmailVerified"}
        ELSE @ \ {"password"}]

\* the document after an update that names keys, at the top level or in $set
Updated(u, keys) ==
    [id |-> u.id,
     name |-> IF "name" \in keys THEN "new" ELSE u.name,
     role |-> IF "role" \in keys THEN "superAdmin" ELSE u.role,
     tenantId |-> IF "tenantId" \in keys THEN "t2" ELSE u.tenantId,
     isEmailVerified |-> IF "isEmailVerified" \in keys THEN TRUE
                         ELSE u.isEmailVerified,
     password |-> IF "password" \in keys THEN "plain" ELSE u.password]

\* User.findByIdAndUpdate(id, body): top-level keys are applied as $set
findByIdAndUpdate(id, body) ==
    {IF u.id = id THEN Updated(u, body.top \cup body.set) ELSE u : u \in users}

\* a request that passed protect and authorize
Call(op, requester, id) ==
    [Idle EXCEPT !.op = op, !.user = requester, !.params = id,
                 !.handled = TRUE]

\* updateUser lines 46-78: findById answers and the checks run
updateUserRead(r, requester, id, body) ==
    /\ running = 0
    /\ req[r].pc \in {"idle", "done"}
    /\ LET rr == Call("updateUser", requester, id)
       IN  IF findById(id) = {}
           THEN req' = [req EXCEPT ![r] = Answer(rr, 404, "User not found", FALSE)]
           ELSE \E user \in findById(id) :
                  IF /\ requester.role = "tenantAdmin"
                     /\ \/ OtherTenantUser(user, requester)
                        \/ user.role = "superAdmin"
                  THEN req' = [req EXCEPT ![r] = Answer(rr, 403,
                                  "Not authorized to modify this user", FALSE)]
                  ELSE req' = [req EXCEPT ![r] =
                                 [rr EXCEPT !.pc = "uwrite",
                                            !.update = Strip(body, requester)]]
    /\ UNCHANGED <<tenants, running, cur, data>>

\* updateUser lines 80-88: findByIdAndUpdate is applied and answered
updateUserWrite(r) ==
    /\ running = 0
    /\ req[r].pc = "uwrite"
    /\ users' = findByIdAndUpdate(req[r].params, req[r].update)
    /\ req' = [req EXCEPT ![r] =
                 Answer([req[r] EXCEPT !.update = NoUpdate], 200, "", FALSE)]
    /\ UNCHANGED <<tenants, running, cur, appointments>>

\* deleteUser lines 96-117: findById answers and the checks run
deleteUserRead(r, requester, id) ==
    /\ running = 0
    /\ req[r].pc \in {"idle", "done"}
    /\ LET rr == Call("deleteUser", requester, id)
       IN  IF findById(id) = {}
           THEN req' = [req EXCEPT ![r] = Answer(rr, 404, "User not found", FALSE)]
           ELSE \E user \in findById(id) :
                  IF /\ requester.role = "tenantAdmin"
                     /\ \/ OtherTenantUser(user, requester)
                        \/ user.role \in {"superAdmin", "tenantAdmin"}
                  THEN req' = [req EXCEPT ![r] = Answer(rr, 403,
                                  "Not authorized to delete this user", FALSE)]
                  ELSE req' = [req EXCEPT ![r] = [rr EXCEPT !.pc = "dwrite"]]
    /\ UNCHANGED <<tenants, running, cur, data>>

\* deleteUser lines 119-140: findByIdAndDelete is applied and answered
deleteUserWrite(r) ==
    /\ running = 0
    /\ req[r].pc = "dwrite"
    /\ users' = users \ findById(req[r].params)
    /\ req' = [req EXCEPT ![r] = Answer(req[r], 200, "", FALSE)]
    /\ UNCHANGED <<tenants, running, cur, appointments>>

\* a sequence of calls of the user router
NextUsers ==
    \/ \E requester \in Requesters : \E id \in UserIds :
          \E body \in UserUpdates : updateUserRead(1, requester, id, body)
    \/ updateUserWrite(1)
    \/ \E requester \in Requesters : \E id \in UserIds :
          deleteUserRead(1, requester, id)
    \/ deleteUserWrite(1)

SpecUsers == Init /\ [][NextUsers]_vars

\* the targets a tenantAdmin may not touch with op
Forbidden(user, requester, op) ==
    \/ user.tenantId = "none"
    \/ user.tenantId # requester.tenantId
    \/ user.role = "superAdmin"
    \/ op = "deleteUser" /\ user.role = "tenantAdmin"

\* the step in which a call of request r reads its target and checks it
ReadStep(r) == req[r].pc \in {"idle", "done"} /\ req'[r] # req[r]

\* C23: updateUser and deleteUser called by a tenantAdmin for a stored user
\* of another tenant, without tenantId, with role superAdmin or (deleteUser)
\* tenantAdmin, end with 403 and leave every user record as it was.
C23_ForeignUserProtected ==
    [][\A r \in Requests :
          (/\ ReadStep(r)
           /\ req'[r].op \in {"updateUser", "deleteUser"}
           /\ req'[r].user.role = "tenantAdmin"
           /\ \E u \in users :
                 /\ u.id = req'[r].params
                 /\ Forbidden(u, req'[r].user, req'[r].op)) =>
              /\ req'[r].pc = "done"
              /\ req'[r].status = 403
              /\ users' = users]_vars

C23_Witness ==
    \E r \in Requests :
        /\ req[r].pc = "done"
        /\ req[r].op = "deleteUser"
        /\ req[r].user = [role |-> "tenantAdmin", tenantId |-> "t1"]
        /\ req[r].status = 403
        /\ \E u \in users :
              u.id = req[r].params /\ u.tenantId = "t1" /\ u.role = "tenantAdmin"

\* C24: no updateUser call of a tenantAdmin changes the role, tenantId,
\* isEmailVerified or password of any user, whatever its body.
C24_ProtectedFieldsKept ==
    [][\A r \in Requests :
          (/\ req[r].pc = "uwrite"
           /\ req[r].user.role = "tenantAdmin"
           /\ req'[r].pc = "done") =>
              \A u \in users : \E v \in users' :
                  /\ v.id = u.id
                  /\ v.role = u.role
                  /\ v.tenantId = u.tenantId
                  /\ v.isEmailVerified = u.isEmailVerified
                  /\ v.password = u.password]_vars

----------------------------------------------------------------------------
(* createAppointment and updateCrewAssignment (appointment controller) *)

\* the ids Service.findById resolves
Services == {"s1", "s2"}

\* req.body of POST /appointments together with the customer profile of
\* req.user ("none": the user has no customer profile)
Bookings ==
    {[customer |-> c, service |-> s, date |-> "d1", startTime |-> t[1],
      endTime |-> t[2]] :
        c \in {"none", "c1"}, s \in {"s1", "s9"},
        t \in {<<8, 10>>, <<10, 12>>, <<8, 0>>}}

\* status: { $nin: ['Cancelled', 'Rejected'] }
Active(a) == a.status \notin {"Cancelled", "Rejected"}

\* createAppointment lines 657-709: the customer and the service are looked
\* up, the time slot is validated, and line 709 evaluates normalizedDate, an
\* identifier that is declared only inside getCalendarAppointments (line
\* 1446): the reference throws, and nothing after it runs
createAppointment(r, booking) ==
    /\ running = 0
    /\ req[r].pc \in {"idle", "done"}
    /\ LET rr == [Idle EXCEPT !.op = "createAppointment", !.booking = booking,
                              !.handled = TRUE]
       IN  IF booking.customer = "none"
           THEN req' = [req EXCEPT ![r] = Answer(rr, 404, "Customer not found", FALSE)]
           ELSE IF booking.service \notin Services
           THEN req' = [req EXCEPT ![r] = Answer(rr, 404, "Service not found", FALSE)]
           ELSE IF booking.startTime = 0 \/ booking.endTime = 0
           THEN req' = [req EXCEPT ![r] = Answer(rr, 400,
                           "Please provide both startTime and endTime", FALSE)]
           ELSE req' = [req EXCEPT ![r] = Answer(rr, 500,
                           "normalizedDate is not defined", FALSE)]
    /\ UNCHANGED <<tenants, running, cur, data>>

\* the users a crew may consist of: role staff or tenantAdmin
Staff == {"p1", "p2"}

\* req.body of PUT /appointments/:id/crew
Crews ==
    {[leadProfessional |-> l, assignedTo |-> m] :
        l \in {"none", "p1", "u1"}, m \in {{}, {"p1"}, {"p2"}}}

AppointmentIds == {a.id : a \in InitialAppointments} \cup {"a9"}

\* Appointment.findById(id)
findAppointment(id) == {a \in appointments : a.id = id}

\* hasConflict(professionalId), lines 1534-1556: another appointment of the
\* same date with an overlapping slot has the professional as lead or member
hasConflict(p, appointment) ==
    \E a \in appointments :
        /\ a.id # appointment.id
        /\ a.date = appointment.date
        /\ a.startTime < appointment.endTime
        /\ a.endTime > appointment.startTime
        /\ (a.crew.leadProfessional = p \/ p \in a.crew.assignedTo)

\* lines 1485-1531: the appointment is read, the role and the staff ids are
\* checked
crewStart(r, role, id, crew) ==
    /\ running = 0
    /\ req[r].pc \in {"idle", "done"}
    /\ LET rr == [Idle EXCEPT !.op = "updateCrewAssignment", !.params = id,
                              !.user = [role |-> role, tenantId |-> "t1"],
                              !.handled = TRUE]
       IN  IF findAppointment(id) = {}
           THEN req' = [req EXCEPT ![r] = Answer(rr, 404, "Appointment not found", FALSE)]
           ELSE IF role # "tenantAdmin"
           THEN req' = [req EXCEPT ![r] = Answer(rr, 403,
                           "Not authorized to assign crew", FALSE)]
           ELSE IF crew.leadProfessional \notin Staff \cup {"none"}
           THEN req' = [req EXCEPT ![r] = Answer(rr, 400,
                           "Invalid lead professional", FALSE)]
           ELSE IF \E a \in findAppointment(id) : a.startTime = 0 \/ a.endTime = 0
           THEN req' = [req EXCEPT ![r] = Answer(rr, 400,
                           "Appointment timeSlot is missing", FALSE)]
           ELSE req' = [req EXCEPT ![r] = [rr EXCEPT !.pc = "ccheck", !.crew = crew]]
    /\ UNCHANGED <<tenants, running, cur, data>>

\* lines 1558-1572: the conflict queries are answered
crewCheck(r) ==
    /\ running = 0
    /\ req[r].pc = "ccheck"
    /\ LET crew == req[r].crew
           named == (crew.assignedTo \cup {crew.leadProfessional}) \ {"none"}
       IN  IF \E a \in appointments : \E p \in named :
                 a.id = req[r].params /\ hasConflict(p, a)
           THEN req' = [req EXCEPT ![r] =
                          Answer([req[r] EXCEPT !.crew = NoCrew], 400,
                                 "not available during this time slot", FALSE)]
           ELSE req' = [req EXCEPT ![r].pc = "csave"]
    /\ UNCHANGED <<tenants, running, cur, data>>

\* lines 1574-1591: appointment.crew is assigned and saved
crewSave(r) ==
    /\ running = 0
    /\ req[r].pc = "csave"
    /\ appointments' =
          {IF a.id = req[r].params THEN [a EXCEPT !.crew = req[r].crew] ELSE a :
              a \in appointments}
    /\ req' = [req EXCEPT ![r] = Answer([req[r] EXCEPT !.crew = NoCrew], 200, "", FALSE)]
    /\ UNCHANGED <<tenants, running, cur, users>>

\* concurrent calls of the appointment router
NextAppointments ==
    \/ \E r \in Requests : \E booking \in Bookings : createAppointment(r, booking)
    \/ \E r \in Requests : \E role \in {"tenantAdmin", "customer"} :
          \E id \in AppointmentIds : \E crew \in Crews : crewStart(r, role, id, crew)
    \/ \E r \in Requests : crewCheck(r)
    \/ \E r \in Requests : crewSave(r)

SpecAppointments == Init /\ [][NextAppointments]_vars

\* a complete booking by a user with a customer profile for an existing service
ValidBooking(b) ==
    b.customer # "none" /\ b.service \in Services /\ b.startTime # 0 /\ b.endTime # 0

\* the active appointments that occupy the slot of booking b
Occupying(b) ==
    {a \in appointments :
        /\ Active(a) /\ a.service = b.service /\ a.date = b.date
        /\ a.startTime = b.startTime /\ a.endTime = b.endTime}

\* the step in which request r runs createAppointment
CreateStep(r) == ReadStep(r) /\ req'[r].op = "createAppointment"

\* C25: no two active appointments share service, date, start and end time,
\* and a createAppointment for a slot that an active appointment already took
\* is answered 400 and stores nothing.
C25_NoDoubleBooking ==
    /\ [](\A a, b \in appointments :
            (/\ a.id # b.id /\ Active(a) /\ Active(b)
             /\ a.service = b.service /\ a.date = b.date) =>
                ~(a.startTime = b.startTime /\ a.endTime = b.endTime))
    /\ [][\A r \in Requests :
            (/\ CreateStep(r)
             /\ ValidBooking(req'[r].booking)
             /\ Occupying(req'[r].booking) # {}) =>
                /\ req'[r].status = 400
                /\ appointments' = appointments]_vars

\* C26: a createAppointment by a user with a customer profile, for an existing
\* service and a complete time slot that no active appointment of the service
\* occupies on that date, stores exactly one new appointment for that customer
\* and service and is answered 201.
C26_BookingStored ==
    [][\A r \in Requests :
          (/\ CreateStep(r)
           /\ ValidBooking(req'[r].booking)
           /\ Occupying(req'[r].booking) = {}) =>
              /\ req'[r].status = 201
              /\ Cardinality(appointments' \ appointments) = 1
              /\ \A a \in appointments' \ appointments :
                    /\ a.customer = req'[r].booking.customer
                    /\ a.service = req'[r].booking.service]_vars

\* the appointments professional p works on, as lead or as crew member
AssignedTo(p) ==
    {a \in appointments : a.crew.leadProfessional = p \/ p \in a.crew.assignedTo}

\* C27: no professional is assigned to two different appointments of the same
\* date whose time slots overlap.
C27_NoCrewOverlap ==
    \A p \in Staff : \A a, b \in AssignedTo(p) :
        (a.id # b.id /\ a.date = b.date) =>
            ~(a.startTime < b.endTime /\ b.startTime < a.endTime)

----------------------------------------------------------------------------
(* Stripe webhook (webhook router) *)

\* req.body as the webhook route finds it: express.json (server.js line 26)
\* has parsed every application/json body before any router runs, and
\* express.raw on the route leaves an already parsed body alone
WebhookBody == "parsed"

\* stripe.webhooks.constructEvent(req.body, sig, secret): the signature is
\* computed over the raw bytes of the request, so only a raw body with the
\* signature Stripe made for it verifies
constructEvent(body, sig) == body = "raw" /\ sig = "valid"

\* case 'customer.subscription.deleted', lines 142-158
subscriptionDeleted(id) == SetStatus(id, "inactive")

\* POST /webhook/stripe with a customer.subscription.deleted event whose
\* metadata names tenant id
stripeWebhook(r, id, sig) ==
    /\ running = 0
    /\ req[r].pc \in {"idle", "done"}
    /\ LET rr == [Idle EXCEPT !.op = "stripeWebhook", !.params = id,
                              !.sig = sig, !.handled = TRUE]
       IN  IF constructEvent(WebhookBody, sig)
           THEN /\ tenants' = subscriptionDeleted(id)
                /\ req' = [req EXCEPT ![r] = Answer(rr, 200, "", FALSE)]
           ELSE /\ req' = [req EXCEPT ![r] = Answer(rr, 400, "Webhook Error", FALSE)]
                /\ UNCHANGED tenants
    /\ UNCHANGED <<running, cur, data>>

\* tenant requests in slot 1, Stripe events in slot 2, and the tenant writers
NextWebhook ==
    \/ \E h \in TenantInputs : Arrive(1, h)
    \/ Step(1)
    \/ \E id \in TenantIds : \E sig \in {"valid", "invalid"} :
          stripeWebhook(2, id, sig)
    \/ \E id \in TenantIds : Write(id)

SpecWebhook == Init /\ [][NextWebhook]_vars

\* the step in which request r answers a correctly signed
\* customer.subscription.deleted event
WebhookStep(r) ==
    /\ ReadStep(r)
    /\ req'[r].op = "stripeWebhook"
    /\ req'[r].sig = "valid"

\* C28: when the webhook has handled a correctly signed
\* customer.subscription.deleted event that names a stored tenant, that
\* tenant's status is 'inactive'; and every run of resolveTenant whose lookup
\* returned an inactive tenant ends 403.
C28_DeletedSubscriptionLocksOut ==
    /\ [][\A r \in Requests :
            WebhookStep(r) =>
                \A t \in tenants' : t.id = req'[r].params => t.status = "inactive"]_vars
    /\ [](\A r \in Requests : \A i \in 1..Len(req[r].outcomes) :
            (/\ req[r].outcomes[i].lookup = "hit"
             /\ req[r].outcomes[i].tenant.status = "inactive") =>
                req[r].outcomes[i].code = 403)

----------------------------------------------------------------------------
(* createTenant (admin and super-admin) and super-admin updateTenant *)

\* the ids MongoDB gives to new tenant documents
NewTenantIds == {"t3", "t4"}

\* req.body.subdomain
Subdomains == {<<"acme">>, <<"gamma">>}

\* Tenant.create({ ..., subdomain }) of either controller
CreatedTenant(id, subdomain) ==
    [id |-> id, subdomain |-> subdomain, status |-> "trialing", domain |-> None,
     customDomains |-> {}]

\* the unique index on subdomain (tenantSchema, unique: true): a write that
\* would give document id a subdomain another document holds fails with
\* E11000
DuplicateKeyMutNoIndex(id, subdomain) == FALSE

DuplicateKey(id, subdomain) ==
    \E t \in tenants : t.id # id /\ t.subdomain = subdomain

\* an error thrown by a controller wrapped in asyncHandler reaches the error
\* handler, which answers the request with an error status
errorHandler(rr, message) == Answer(rr, 500, message, FALSE)

\* createTenant up to Tenant.create: validation and the findOne check
\* (part_004 lines 77-89, super-admin.controller.js lines 200-219)
createTenantCheck(r, op, subdomain) ==
    /\ running = 0
    /\ req[r].pc \in {"idle", "done"}
    /\ LET rr == [Idle EXCEPT !.op = op, !.query = Some(subdomain),
                              !.handled = TRUE]
       IN  IF findOne(subdomain) # {}
           THEN req' = [req EXCEPT ![r] = Answer(rr, 400,
                           "Subdomain already exists", FALSE)]
           ELSE req' = [req EXCEPT ![r] = [rr EXCEPT !.pc = "tcreate"]]
    /\ UNCHANGED <<tenants, running, cur, data>>

\* Tenant.create is applied: the document is inserted unless the unique index
\* rejects it
createTenantInsert(r) ==
    /\ running = 0
    /\ req[r].pc = "tcreate"
    /\ \E id \in NewTenantIds :
          /\ \A t \in tenants : t.id # id
          /\ IF DuplicateKey(id, req[r].query.v)
             THEN /\ req' = [req EXCEPT ![r] = errorHandler(req[r],
                                "E11000 duplicate key")]
                  /\ UNCHANGED tenants
             ELSE /\ tenants' = tenants \cup {CreatedTenant(id, req[r].query.v)}
                  /\ req' = [req EXCEPT ![r] = Answer([req[r] EXCEPT !.params = id],
                                                       201, "", FALSE)]
    /\ UNCHANGED <<running, cur, data>>

\* updateTenant lines 283-295: findById and the findOne check
updateTenantCheck(r, id, subdomain) ==
    /\ running = 0
    /\ req[r].pc \in {"idle", "done"}
    /\ LET rr == [Idle EXCEPT !.op = "updateTenant", !.params = id,
                              !.query = Some(subdomain), !.handled = TRUE]
       IN  IF ~\E t \in tenants : t.id = id
           THEN req' = [req EXCEPT ![r] = Answer(rr, 404, "Tenant not found", FALSE)]
           ELSE IF /\ \E t \in tenants : t.id = id /\ t.subdomain # subdomain
                   /\ findOne(subdomain) # {}
           THEN req' = [req EXCEPT ![r] = Answer(rr, 400,
                           "Subdomain already exists", FALSE)]
           ELSE req' = [req EXCEPT ![r] = [rr EXCEPT !.pc = "tupdate"]]
    /\ UNCHANGED <<tenants, running, cur, data>>

\* updateTenant lines 297-306: findByIdAndUpdate is applied unless the unique
\* index rejects it
updateTenantWrite(r) ==
    /\ running = 0
    /\ req[r].pc = "tupdate"
    /\ IF /\ \E t \in tenants : t.id = req[r].params
          /\ DuplicateKey(req[r].params, req[r].query.v)
       THEN /\ req' = [req EXCEPT ![r] = errorHandler(req[r],
                          "E11000 duplicate key")]
            /\ UNCHANGED tenants
       ELSE /\ tenants' = {IF t.id = req[r].params
                           THEN [t EXCEPT !.subdomain = req[r].query.v]
                           ELSE t : t \in tenants}
            /\ req' = [req EXCEPT ![r] = Answer(req[r], 200, "", FALSE)]
    /\ UNCHANGED <<running, cur, data>>

\* concurrent requests of the admin and super-admin tenant routes
NextTenants ==
    \/ \E r \in Requests : \E op \in {"createTenant", "adminCreateTenant"} :
          \E sd \in Subdomains : createTenantCheck(r, op, sd)
    \/ \E r \in Requests : createTenantInsert(r)
    \/ \E r \in Requests : \E id \in TenantIds \cup NewTenantIds :
          \E sd \in Subdomains \cup {<<"beta">>} : updateTenantCheck(r, id, sd)
    \/ \E r \in Requests : updateTenantWrite(r)
    \/ \E id \in TenantIds : deleteTenant(id)

SpecTenants == Init /\ [][NextTenants]_vars

\* the step in which a tenant request of r is answered
TenantAnswer(r) ==
    /\ req[r].pc # "done" /\ req'[r].pc = "done"
    /\ req'[r].op \in {"createTenant", "adminCreateTenant", "updateTenant"}

\* C29: no two tenants of the directory have the same subdomain, so a lookup
\* by key matches at most one tenant; and a create or update request that is
\* answered with an error changed no tenant.
C29_SubdomainUnique ==
    /\ [](/\ \A t, u \in tenants : t.subdomain = u.subdomain => t = u
          /\ \A sd \in Subdomains \cup {<<"beta">>} :
                Cardinality(findOne(sd)) <= 1)
    /\ [][\A r \in Requests :
            (TenantAnswer(r) /\ req'[r].status \notin {200, 201}) =>
                tenants' = tenants]_vars
    /\ [][\A r \in Requests :
            (/\ TenantAnswer(r)
             /\ req[r].pc \in {"tcreate", "tupdate"}
             /\ \E t \in tenants :
                   t.subdomain = req[r].query.v /\ t.id # req[r].params
             /\ req[r].op = "updateTenant" =>
                   \E t \in tenants : t.id = req[r].params) =>
                req'[r].status \notin {200, 201}]_vars

C29_Witness ==
    \E r \in Requests :
        /\ req[r].pc = "done"
        /\ req[r].op = "createTenant"
        /\ req[r].message = "E11000 duplicate key"
        /\ \E t \in tenants : t.id \in NewTenantIds /\ t.subdomain = req[r].query.v

----------------------------------------------------------------------------
\* the step in which resolveTenant rejects request r as TenantNotFound (404)
\* or TenantInactive (403)
ResolverRejects(r) ==
    /\ req[r].pc = "ready"
    /\ req'[r].pc = "done"
    /\ req'[r].status \in {403, 404}

\* C30: a request that resolveTenant rejects as TenantInactive or
\* TenantNotFound carries no tenant identity: no context was published for it
\* and req.tenant is not set.
C30_RejectedCarriesNoTenant ==
    [][\A r \in Requests :
          ResolverRejects(r) =>
              /\ req'[r].outcomes[Len(req'[r].outcomes)].ctx = Undefined
              /\ req'[r].tenant = NoTenant]_vars

====
